---------------------------- MODULE Spec2Model ----------------------------
(***************************************************************************)
(* A model of phonetisaurus-pypi: the lexicon store built by load_lexicon, *)
(* the training serializer train, and the resolution / batching logic of   *)
(* do_predict (guess_words and the --empty-line controller).               *)
(*                                                                         *)
(* Text is modelled as it is in the program: a string is a sequence of     *)
(* characters, a lexicon line is split by the separator regex, a word is   *)
(* stripped, cased and matched against the word(n) regex character by      *)
(* character.  A lexicon store is a Python dict: a sequence of entries in  *)
(* insertion order, each a word with its list of pronunciations.           *)
(***************************************************************************)
EXTENDS Integers, Sequences, FiniteSets, TLC

VARIABLES
    command,     \* args.command: "load" (library use of load_lexicon), "train", "predict"
    pc,          \* position in the control flow
    files,       \* the lexicon files (args.lexicon), each a sequence of lines
    fi,          \* number of lexicon files opened so far
    li,          \* number of lines of the current file consumed by load_lexicon
    heap,        \* the dict objects allocated so far; an object's id is its index
    lexicon,     \* the caller's variable `lexicon`: an object id, or None
    arg,         \* load_lexicon's `lexicon` argument as passed by the caller
    target,      \* load_lexicon's local `lexicon` after line 140
    casing,      \* args.casing
    nbest,       \* args.nbest
    empty_line,  \* args.empty_line
    args_words,  \* args.words
    stdin,       \* the lines read from sys.stdin so far
    words,       \* do_predict's accumulator `words` (delimited mode)
    flushes,     \* one record per guess_words call: its batch, what it printed, what it sent to predict
    train_file   \* the temporary --lexicon files handed to the trainer, each its lines

vars == <<command, pc, files, fi, li, heap, lexicon, arg, target, casing, nbest,
          empty_line, args_words, stdin, words, flushes, train_file>>

None == 0

-----------------------------------------------------------------------------
(* Bounds of the model *)

MaxFiles == 2      \* lexicon files given on one run
MaxLines == 3      \* lexicon lines over all files of one run
MaxStdin == 4      \* lines on stdin
MaxArgs == 2       \* words given as arguments
MaxNbest == 3      \* largest --nbest tried
G2PBest == 2       \* pronunciations the external model has for a word

-----------------------------------------------------------------------------
(* Characters and strings *)

TAB == "\t"
NL == "\n"
NBSP == "nbsp"     \* the character 0xA0

\* str.isspace() for the characters of the model (0xA0 is whitespace to Python)
IsSpace(c) == c \in {" ", TAB, NL, NBSP}

IsDigit(c) == c \in {"0", "1", "2"}

Lower(c) == CASE c = "A" -> "a" [] c = "B" -> "b" [] OTHER -> c

Upper(c) == CASE c = "a" -> "A" [] c = "b" -> "B" [] OTHER -> c

str_lower(s) == [i \in 1..Len(s) |-> Lower(s[i])]

str_upper(s) == [i \in 1..Len(s) |-> Upper(s[i])]

\* str.strip(): drop the leading and the trailing whitespace
strip(s) ==
    LET keep == {i \in 1..Len(s) : ~IsSpace(s[i])}
    IN  IF keep = {} THEN <<>>
        ELSE LET lo == CHOOSE i \in keep : \A j \in keep : i <= j
                 hi == CHOOSE i \in keep : \A j \in keep : j <= i
             IN  SubSeq(s, lo, hi)

\* sep.join(parts)
RECURSIVE join(_, _)
join(sep, parts) ==
    IF parts = <<>> THEN <<>>
    ELSE IF Len(parts) = 1 THEN parts[1]
    ELSE parts[1] \o sep \o join(sep, Tail(parts))

\* _WHITESPACE = re.compile(r"[ \t]+"): the characters of one separator run
WHITESPACE == {" ", TAB}

\* regex.split(s, maxsplit=1) for a regex [chars]+ : the text before the first
\* run of separator characters and the text after it; one part when no
\* separator occurs
split1(chars, s) ==
    LET hits == {i \in 1..Len(s) : s[i] \in chars}
    IN  IF hits = {} THEN <<s>>
        ELSE LET i == CHOOSE h \in hits : \A k \in hits : h <= k
                 after == {k \in i..Len(s) : s[k] \notin chars}
                 j == IF after = {} THEN Len(s) + 1
                      ELSE CHOOSE a \in after : \A k \in after : a <= k
             IN  <<SubSeq(s, 1, i - 1), SubSeq(s, j, Len(s))>>

\* regex.split(s) for a regex [chars]+ : split at every separator run
RECURSIVE split(_, _)
split(chars, s) ==
    LET parts == split1(chars, s)
    IN  IF Len(parts) = 1 THEN parts
        ELSE <<parts[1]>> \o split(chars, parts[2])

\* _WORD_WITH_NUMBER = re.compile(r"^([^(]+)(\(\d+\))$") followed by group(1):
\* the word without its (n) when it is a non-empty stem free of "(" followed
\* by "(", one or more digits and ")"; the word itself otherwise
WordWithoutNumber(word) ==
    LET n == Len(word)
        opens == {i \in 1..n : word[i] = "("}
    IN  IF opens = {} THEN word
        ELSE LET p == CHOOSE i \in opens : \A k \in opens : i <= k
             IN  IF /\ p > 1
                    /\ word[n] = ")"
                    /\ n - p >= 2
                    /\ \A k \in (p + 1)..(n - 1) : IsDigit(word[k])
                 THEN SubSeq(word, 1, p - 1)
                 ELSE word

-----------------------------------------------------------------------------
(* The lexicon store: a dict word -> list of pronunciations *)

HasKey(store, word) == \E i \in 1..Len(store) : store[i].word = word

KeyIndex(store, word) == CHOOSE i \in 1..Len(store) : store[i].word = word

\* lexicon.get(word): the pronunciation list, or the empty list for None
get(store, word) ==
    IF HasKey(store, word) THEN store[KeyIndex(store, word)].prons ELSE <<>>

\* lexicon[word] = prons: replaces in place, or adds the key at the end
setitem(store, word, prons) ==
    IF HasKey(store, word)
    THEN [store EXCEPT ![KeyIndex(store, word)].prons = prons]
    ELSE Append(store, [word |-> word, prons |-> prons])

\* load_lexicon lines 166-170: append to the word's list, or start it
AddPron(store, word, phonemes) ==
    LET word_prons == get(store, word)
    IN  IF word_prons # <<>>
        THEN [store EXCEPT ![KeyIndex(store, word)].prons = Append(word_prons, phonemes)]
        ELSE setitem(store, word, <<phonemes>>)

\* load_lexicon lines 158-164 on one stripped line: the key and the phonemes
ParseLine(line) ==
    LET parts == split1(WHITESPACE, line)
    IN  [word |-> WordWithoutNumber(parts[1]),
         phonemes |-> split(WHITESPACE, parts[2])]

\* line 158 raises (the unpacking fails) when the separator does not occur
Malformed(line) == Len(split1(WHITESPACE, line)) # 2

\* load_lexicon without the unpacking of line 158: a line that does not split
\* is stored as a word with no phonemes
LoadLineInto_KeepsUnsplit(store, raw) ==
    LET line == strip(raw)
    IN  IF line = <<>> THEN store
        ELSE IF Malformed(line) THEN AddPron(store, line, <<>>)
        ELSE AddPron(store, ParseLine(line).word, ParseLine(line).phonemes)

\* the body of load_lexicon's loop for one line of the file
LoadLineInto(store, raw) ==
    LET line == strip(raw)
    IN  IF line = <<>> THEN store
        ELSE IF Malformed(line) THEN store
        ELSE AddPron(store, ParseLine(line).word, ParseLine(line).phonemes)

\* Python truth value of the `lexicon` variable: None and {} are false
Truthy(h, ref) == ref # None /\ h[ref] # <<>>

-----------------------------------------------------------------------------
(* Inputs *)

\* all sequences over S of length at most n
SeqsUpTo(S, n) == UNION {[1..k -> S] : k \in 0..n}

\* all sequences of at most nf files holding at most nl lines together
RECURSIVE FileSeqs(_, _, _)
FileSeqs(L, nf, nl) ==
    IF nf = 0 THEN {<<>>}
    ELSE {<<>>} \cup
         UNION {{<<f>> \o rest : rest \in FileSeqs(L, nf - 1, nl - Len(f))} :
                f \in SeqsUpTo(L, nl)}

\* lexicon lines tried with load_lexicon
LoadLines ==
    { <<"a", " ", "x", NL>>,
      <<"a", "(", "1", ")", TAB, "y", " ", "z", NL>>,
      <<"(", "a", "(", "1", ")", " ", "x", NL>>,
      <<"b", " ", " ", "x", " ", NL>>,
      <<"a", NL>>,
      <<" ", NL>> }

-----------------------------------------------------------------------------
(* load_lexicon *)

CurrentLine == files[fi][li + 1]

Store == heap[target]

\* load_lexicon line 140: lexicon = lexicon or defaultdict(list)
load_lexicon_enter ==
    /\ pc = "load"
    /\ fi < Len(files)
    /\ fi' = fi + 1
    /\ li' = 0
    /\ arg' = lexicon
    /\ IF Truthy(heap, lexicon)
       THEN target' = lexicon /\ heap' = heap
       ELSE target' = Len(heap) + 1 /\ heap' = Append(heap, <<>>)
    /\ pc' = "in_load"
    /\ UNCHANGED <<command, files, lexicon, casing, nbest, empty_line, args_words,
                   stdin, words, flushes, train_file>>

\* lines 153-155: a blank line
load_lexicon_blank ==
    /\ pc = "in_load"
    /\ li < Len(files[fi])
    /\ strip(CurrentLine) = <<>>
    /\ li' = li + 1
    /\ heap' = [heap EXCEPT ![target] = LoadLineInto(Store, CurrentLine)]
    /\ UNCHANGED <<command, pc, files, fi, lexicon, arg, target, casing, nbest,
                   empty_line, args_words, stdin, words, flushes, train_file>>

\* lines 157-170: a line that splits into word and phonemes
load_lexicon_entry ==
    /\ pc = "in_load"
    /\ li < Len(files[fi])
    /\ strip(CurrentLine) # <<>>
    /\ ~Malformed(strip(CurrentLine))
    /\ li' = li + 1
    /\ heap' = [heap EXCEPT ![target] = LoadLineInto(Store, CurrentLine)]
    /\ UNCHANGED <<command, pc, files, fi, lexicon, arg, target, casing, nbest,
                   empty_line, args_words, stdin, words, flushes, train_file>>

\* lines 171-172: the exception of a line that does not split is logged
load_lexicon_except ==
    /\ pc = "in_load"
    /\ li < Len(files[fi])
    /\ strip(CurrentLine) # <<>>
    /\ Malformed(strip(CurrentLine))
    /\ li' = li + 1
    /\ heap' = [heap EXCEPT ![target] = LoadLineInto(Store, CurrentLine)]
    /\ UNCHANGED <<command, pc, files, fi, lexicon, arg, target, casing, nbest,
                   empty_line, args_words, stdin, words, flushes, train_file>>

\* line 174 and the caller's assignment lexicon = load_lexicon(...)
load_lexicon_return ==
    /\ pc = "in_load"
    /\ li = Len(files[fi])
    /\ lexicon' = target
    /\ pc' = "load"
    /\ UNCHANGED <<command, files, fi, li, heap, arg, target, casing, nbest,
                   empty_line, args_words, stdin, words, flushes, train_file>>

\* a library caller that is done loading
load_done ==
    /\ command = "load"
    /\ pc = "load"
    /\ fi = Len(files)
    /\ pc' = "done"
    /\ UNCHANGED <<command, files, fi, li, heap, lexicon, arg, target, casing, nbest,
                   empty_line, args_words, stdin, words, flushes, train_file>>

NoPredict ==
    /\ casing = "ignore"
    /\ nbest = 1
    /\ empty_line = FALSE
    /\ args_words = <<>>
    /\ stdin = <<>>
    /\ words = <<>>
    /\ flushes = <<>>

\* load_lexicon called file after file by a caller that passes on the store
\* returned; the first call gets no store (do_predict line 88) or an empty one
\* (do_train line 192)
InitLoad ==
    /\ command = "load"
    /\ pc = "load"
    /\ files \in FileSeqs(LoadLines, MaxFiles, MaxLines)
    /\ fi = 0
    /\ li = 0
    /\ \/ heap = <<>> /\ lexicon = None
       \/ heap = << <<>> >> /\ lexicon = 1
    /\ arg = None
    /\ target = None
    /\ train_file = <<>>
    /\ NoPredict

NextLoad ==
    \/ load_lexicon_enter
    \/ load_lexicon_blank
    \/ load_lexicon_entry
    \/ load_lexicon_except
    \/ load_lexicon_return
    \/ load_done

SpecLoad == InitLoad /\ [][NextLoad]_vars

-----------------------------------------------------------------------------
(* Properties of load_lexicon *)

RECURSIVE Flatten(_)
Flatten(ss) == IF ss = <<>> THEN <<>> ELSE ss[1] \o Flatten(Tail(ss))

\* the lexicon lines load_lexicon has consumed so far, over all files
Consumed ==
    IF fi = 0 THEN <<>>
    ELSE Flatten(SubSeq(files, 1, fi - 1)) \o SubSeq(files[fi], 1, li)

\* the store being built: load_lexicon's inside a call, the caller's outside
StoreNow ==
    IF pc = "in_load" THEN heap[target]
    ELSE IF lexicon = None THEN <<>> ELSE heap[lexicon]

WellFormed(raw) == strip(raw) # <<>> /\ ~Malformed(strip(raw))

\* the word field of a well-formed line, as written in the file
WordField(raw) == split1(WHITESPACE, strip(raw))[1]

PhonemeField(raw) == split(WHITESPACE, split1(WHITESPACE, strip(raw))[2])

\* a word without a trailing "(digits)", whatever precedes it
WithoutTrailingNumber(word) ==
    LET n == Len(word)
        opens == {i \in 1..n : word[i] = "("}
    IN  IF opens = {} THEN word
        ELSE LET p == CHOOSE i \in opens : \A k \in opens : k <= i
             IN  IF /\ word[n] = ")"
                    /\ n - p >= 2
                    /\ \A k \in (p + 1)..(n - 1) : IsDigit(word[k])
                 THEN SubSeq(word, 1, p - 1)
                 ELSE word

\* the phoneme lists, in order, of the well-formed lines whose word is k once
\* its trailing "(digits)" is removed
RECURSIVE PronsOfKey(_, _)
PronsOfKey(k, lines) ==
    IF lines = <<>> THEN <<>>
    ELSE (IF WellFormed(lines[1]) /\ WithoutTrailingNumber(WordField(lines[1])) = k
          THEN <<PhonemeField(lines[1])>> ELSE <<>>)
         \o PronsOfKey(k, Tail(lines))

KeysOf(store) == {store[i].word : i \in 1..Len(store)}

\* C3: after loading any sequence of lexicon sources into one store, the
\* pronunciation list of every key k is the phoneme lists of all well-formed
\* lines whose word, after stripping a trailing "(digits)" suffix, is k, in
\* source order and then line order, nothing replaced, reordered or
\* de-duplicated.
C3_StoreIsLinesByKey ==
    \A k \in KeysOf(StoreNow) \cup
             {WithoutTrailingNumber(WordField(Consumed[i])) :
                 i \in {j \in 1..Len(Consumed) : WellFormed(Consumed[j])}} :
        get(StoreNow, k) = PronsOfKey(k, Consumed)

\* C9: whenever a store is passed to load_lexicon as the target, whatever its
\* contents (an empty store included), that same store is the one mutated and
\* returned: after a call that loaded entries the caller's store holds them
\* and the value returned is that store.
C9_PassedStoreIsReturned ==
    (pc = "load" /\ fi > 0 /\ arg # None /\ heap[lexicon] # <<>>)
        => (lexicon = arg /\ heap[arg] = heap[lexicon])

\* the lines of a source without its malformed lines
RECURSIVE WithoutMalformed(_)
WithoutMalformed(lines) ==
    IF lines = <<>> THEN <<>>
    ELSE (IF strip(lines[1]) # <<>> /\ Malformed(strip(lines[1]))
          THEN <<>> ELSE <<lines[1]>>)
         \o WithoutMalformed(Tail(lines))

\* the entries a store gets from well-formed lines only: every
\* pronunciation is a non-empty list of non-empty phonemes under a non-empty key
RECURSIVE EntriesOf(_)
EntriesOf(lines) ==
    IF lines = <<>> THEN <<>>
    ELSE (IF WellFormed(lines[1])
          THEN <<[word |-> WordWithoutNumber(WordField(lines[1])),
                  phonemes |-> PhonemeField(lines[1])]>>
          ELSE <<>>)
         \o EntriesOf(Tail(lines))

\* the store that results from adding the given entries one by one
RECURSIVE StoreOfEntries(_, _)
StoreOfEntries(store, entries) ==
    IF entries = <<>> THEN store
    ELSE StoreOfEntries(
            IF HasKey(store, entries[1].word)
            THEN [store EXCEPT ![KeyIndex(store, entries[1].word)].prons =
                                    Append(@, entries[1].phonemes)]
            ELSE Append(store, [word |-> entries[1].word,
                                prons |-> <<entries[1].phonemes>>]),
            Tail(entries))

\* C10: a malformed lexicon line (a non-blank line in which the word separator
\* does not occur) never aborts a load: the line is skipped, the store is left
\* as it was, the following lines are loaded, and the resulting store is the
\* store of the same source with the malformed lines removed.
C10_MalformedLinesSkipped ==
    StoreNow = StoreOfEntries(<<>>, EntriesOf(WithoutMalformed(Consumed)))

\* a malformed line was consumed, a later line was loaded, and the call returned
C10_Witness ==
    /\ pc = "load"
    /\ fi > 0
    /\ \E i, j \in 1..Len(Consumed) :
          /\ i < j
          /\ strip(Consumed[i]) # <<>>
          /\ Malformed(strip(Consumed[i]))
          /\ WellFormed(Consumed[j])
    /\ StoreNow # <<>>

-----------------------------------------------------------------------------
(* train *)

\* lexicon lines tried with do_train
TrainLines ==
    { <<"a", " ", "x", NL>>,
      <<"a", "(", "1", ")", " ", "y", " ", "z", NL>>,
      <<"a", "_", " ", "x", NL>>,
      <<"b", " ", "x", "|", "y", NL>>,
      <<"a", NBSP, "b", " ", "x", NL>>,
      <<"b", " ", "y", "_", " ", "z", NL>> }

\* _LEXICON_SKIP with the bar read as an alternation: [_\xA0]
LEXICON_SKIP_NoBar == {"_", NBSP}

\* the character class of _LEXICON_SKIP = re.compile(r".*[_|\xA0].*")
LEXICON_SKIP == {"_", "|", NBSP}

\* _LEXICON_SKIP.match(line): a character of the class occurs, with no
\* newline before it ("." does not match a newline)
LEXICON_SKIP_match(line) ==
    \E i \in 1..Len(line) :
        /\ line[i] \in LEXICON_SKIP
        /\ \A j \in 1..(i - 1) : line[j] # NL

\* train lines 100-101: f"{word}\t{' '.join(word_pron)}"
lexicon_line(word, word_pron) == word \o <<TAB>> \o join(<<" ">>, word_pron)

\* train lines 99-104 for one word: the lines printed to the temporary file
RECURSIVE TrainLinesOfWord(_, _)
TrainLinesOfWord(word, word_prons) ==
    IF word_prons = <<>> THEN <<>>
    ELSE (IF ~LEXICON_SKIP_match(lexicon_line(word, word_prons[1]))
          THEN <<lexicon_line(word, word_prons[1])>> ELSE <<>>)
         \o TrainLinesOfWord(word, Tail(word_prons))

\* train lines 98-104: the temporary file handed to phonetisaurus-train
RECURSIVE TrainFile(_)
TrainFile(store) ==
    IF store = <<>> THEN <<>>
    ELSE TrainLinesOfWord(store[1].word, store[1].prons) \o TrainFile(Tail(store))

\* do_train line 209: train(lexicon=lexicon, ...) once every file is loaded
train ==
    /\ command = "train"
    /\ pc = "load"
    /\ fi = Len(files)
    /\ train_file' = <<TrainFile(heap[lexicon])>>
    /\ pc' = "done"
    /\ UNCHANGED <<command, files, fi, li, heap, lexicon, arg, target, casing, nbest,
                   empty_line, args_words, stdin, words, flushes>>

\* do_train: lexicon = {} (line 192), then the files, then train
InitTrain ==
    /\ command = "train"
    /\ pc = "load"
    /\ files \in FileSeqs(TrainLines, MaxFiles, MaxLines)
    /\ fi = 0
    /\ li = 0
    /\ heap = << <<>> >>
    /\ lexicon = 1
    /\ arg = None
    /\ target = None
    /\ train_file = <<>>
    /\ NoPredict

NextTrain ==
    \/ load_lexicon_enter
    \/ load_lexicon_entry
    \/ load_lexicon_return
    \/ train

SpecTrain == InitTrain /\ [][NextTrain]_vars

\* the (word, pronunciation) pairs of a store, in store order
RECURSIVE PairsOf(_)
PairsOf(store) ==
    IF store = <<>> THEN <<>>
    ELSE [i \in 1..Len(store[1].prons) |->
             [word |-> store[1].word, pron |-> store[1].prons[i]]]
         \o PairsOf(Tail(store))

Contains(s, chars) == \E i \in 1..Len(s) : s[i] \in chars

\* the serialized lines of the pairs whose line has no character of `chars`
RECURSIVE LinesWithout(_, _)
LinesWithout(pairs, chars) ==
    IF pairs = <<>> THEN <<>>
    ELSE LET l == pairs[1].word \o <<TAB>> \o join(<<" ">>, pairs[1].pron)
         IN  (IF Contains(l, chars) THEN <<>> ELSE <<l>>)
             \o LinesWithout(Tail(pairs), chars)

\* C8 as stated: train sends to the trainer exactly the lines
\* "word<TAB>phoneme phoneme ..." of the pairs of the store whose line contains
\* neither the underscore nor the no-break space: every pair with one of the
\* two is excluded, every pair with neither is serialized, one line per pair.
C8_OnlyUnderscoreAndNbspExcluded ==
    train_file # <<>> =>
        train_file[1] = LinesWithout(PairsOf(heap[lexicon]), {"_", NBSP})

\* C8 amended: the lines sent are those of the pairs whose line contains none
\* of the underscore, the vertical bar and the no-break space.
C8_ReservedLinesExcluded ==
    train_file # <<>> =>
        train_file[1] = LinesWithout(PairsOf(heap[lexicon]), {"_", "|", NBSP})

\* the store held a pair with a vertical bar and a pair that was serialized,
\* and the trainer's file was written
C8_Witness ==
    /\ train_file # <<>>
    /\ train_file[1] # <<>>
    /\ Len(train_file[1]) < Len(PairsOf(heap[lexicon]))
    /\ \E i \in 1..Len(PairsOf(heap[lexicon])) :
          Contains(join(<<" ">>, PairsOf(heap[lexicon])[i].pron), {"|"})

-----------------------------------------------------------------------------
(* predict and do_predict *)

Min(a, b) == IF a < b THEN a ELSE b

DigitChar(i) == <<"1", "2", "3", "4", "5", "6", "7", "8", "9">>[i]

\* phonetisaurus-apply on one word of the word list: a line "word<TAB>p p"
\* per hypothesis, best first, at most --nbest of them; none for an empty line
G2PLines(word, n) ==
    IF word = <<>> THEN <<>>
    ELSE [i \in 1..Min(n, G2PBest) |->
             word \o <<TAB, "g", " ">> \o <<DigitChar(i)>> \o <<NL>>]

\* the output of one phonetisaurus-apply run: the words answered in order
RECURSIVE G2POutput(_, _)
G2POutput(word_list, n) ==
    IF word_list = <<>> THEN <<>>
    ELSE G2PLines(word_list[1], n) \o G2POutput(Tail(word_list), n)

\* predict lines 64-69: each non-blank line of the output, split into the
\* word and its phonemes
RECURSIVE ParseResults(_)
ParseResults(result_lines) ==
    IF result_lines = <<>> THEN <<>>
    ELSE LET line == strip(result_lines[1])
             parts == split(WHITESPACE, line)
         IN  (IF line # <<>>
              THEN <<[word |-> parts[1], phonemes |-> Tail(parts)]>>
              ELSE <<>>)
             \o ParseResults(Tail(result_lines))

\* predict(words, model_path, nbest): one run of the external guesser
predict(word_list, n) == ParseResults(G2POutput(word_list, n))

\* guess_words without line 108
Normalize_NoStrip(word) ==
    CASE casing = "lower" -> str_lower(word)
      [] casing = "upper" -> str_upper(word)
      [] OTHER -> word

\* guess_words lines 108-110: strip, then the casing function if there is one
Normalize(word) ==
    LET w == strip(word)
    IN  CASE casing = "lower" -> str_lower(w)
          [] casing = "upper" -> str_upper(w)
          [] OTHER -> w

\* the store guess_words consults: `if lexicon:` is false for None and for {}
LexiconStore == IF Truthy(heap, lexicon) THEN heap[lexicon] ELSE <<>>

\* guess_words without the [: args.nbest] slice
PrintedFromLexicon_All(word, word_prons) ==
    [i \in 1..Len(word_prons) |->
        [word |-> word, pron |-> join(<<" ">>, word_prons[i])]]

\* guess_words lines 116-118: the lines printed for a word found in the lexicon
PrintedFromLexicon(word, word_prons) ==
    [i \in 1..Min(nbest, Len(word_prons)) |->
        [word |-> word, pron |-> join(<<" ">>, word_prons[i])]]

\* guess_words lines 105-124: the loop over the batch; what it prints and the
\* words it leaves to guess
RECURSIVE LookupLoop(_)
LookupLoop(batch) ==
    IF batch = <<>> THEN [printed |-> <<>>, words_to_guess |-> <<>>]
    ELSE LET word == Normalize(batch[1])
             word_prons == get(LexiconStore, word)
             rest == LookupLoop(Tail(batch))
         IN  IF word_prons # <<>>
             THEN [printed |-> PrintedFromLexicon(word, word_prons) \o rest.printed,
                   words_to_guess |-> rest.words_to_guess]
             ELSE [printed |-> rest.printed,
                   words_to_guess |-> <<word>> \o rest.words_to_guess]

\* guess_words lines 133-137: the lines printed for the results of predict
PrintedFromPredict(results) ==
    [i \in 1..Len(results) |->
        [word |-> results[i].word, pron |-> join(<<" ">>, results[i].phonemes)]]

\* guess_words without the `if words_to_guess` guard of line 127
guess_words_Unguarded(batch) ==
    LET r == LookupLoop(batch)
    IN  [words |-> batch,
         printed |-> r.printed \o PrintedFromPredict(predict(r.words_to_guess, nbest)),
         sent |-> <<r.words_to_guess>>]

\* guess_words guessing before it looks up
guess_words_GuessFirst(batch) ==
    LET r == LookupLoop(batch)
    IN  IF r.words_to_guess # <<>>
        THEN [words |-> batch,
              printed |-> PrintedFromPredict(predict(r.words_to_guess, nbest)) \o r.printed,
              sent |-> <<r.words_to_guess>>]
        ELSE [words |-> batch, printed |-> r.printed, sent |-> <<>>]

\* guess_words(words): the batch, the lines printed in order, and the word
\* lists handed to predict (none when nothing is left to guess)
guess_words(batch) ==
    LET r == LookupLoop(batch)
    IN  IF r.words_to_guess # <<>>
        THEN [words |-> batch,
              printed |-> r.printed \o PrintedFromPredict(predict(r.words_to_guess, nbest)),
              sent |-> <<r.words_to_guess>>]
        ELSE [words |-> batch, printed |-> r.printed, sent |-> <<>>]

\* lines of stdin tried
StdinLines ==
    { <<NL>>,
      <<"a", NL>>,
      <<"A", NL>>,
      <<" ", "b", " ", NL>> }

\* words tried as arguments
ArgWords == { <<"a">>, <<"a", "(", "1", ")">>, <<"B">> }

\* the lexicon files tried with predict
PredictLexicons ==
    { <<>>,
      << <<>> >>,
      << << <<"a", " ", "x", NL>>,
            <<"a", "(", "1", ")", TAB, "y", " ", "z", NL>>,
            <<"a", "(", "2", ")", " ", "x", NL>> >> >>,
      << << <<"a", " ", "x", NL>>, <<"A", " ", "y", NL>> >>,
         << <<"a", "(", "1", ")", " ", "z", NL>> >> >> }

LexiconsLoaded == command = "predict" /\ pc = "load" /\ fi = Len(files)

\* do_predict lines 140-142: words from the arguments
predict_args ==
    /\ LexiconsLoaded
    /\ args_words # <<>>
    /\ flushes' = Append(flushes, guess_words(args_words))
    /\ pc' = "done"
    /\ UNCHANGED <<command, files, fi, li, heap, lexicon, arg, target, casing, nbest,
                   empty_line, args_words, stdin, words, train_file>>

\* do_predict lines 171-173: all of stdin read up front, one batch
predict_readlines ==
    /\ LexiconsLoaded
    /\ args_words = <<>>
    /\ ~empty_line
    /\ \E ls \in SeqsUpTo(StdinLines, MaxStdin) :
          /\ stdin' = ls
          /\ flushes' = Append(flushes, guess_words(ls))
    /\ pc' = "done"
    /\ UNCHANGED <<command, files, fi, li, heap, lexicon, arg, target, casing, nbest,
                   empty_line, args_words, words, train_file>>

\* do_predict lines 148-151: --empty-line, the accumulator starts empty
empty_line_start ==
    /\ LexiconsLoaded
    /\ args_words = <<>>
    /\ empty_line
    /\ words' = <<>>
    /\ pc' = "reading"
    /\ UNCHANGED <<command, files, fi, li, heap, lexicon, arg, target, casing, nbest,
                   empty_line, args_words, stdin, flushes, train_file>>

\* lines 155-158: a non-blank line is added to the guess list
empty_line_word ==
    /\ pc = "reading"
    /\ Len(stdin) < MaxStdin
    /\ \E l \in StdinLines :
          /\ strip(l) # <<>>
          /\ stdin' = Append(stdin, l)
          /\ words' = Append(words, strip(l))
    /\ UNCHANGED <<command, pc, files, fi, li, heap, lexicon, arg, target, casing,
                   nbest, empty_line, args_words, flushes, train_file>>

\* lines 159-162 without the reset of line 162
empty_line_flush_NoReset ==
    /\ pc = "reading"
    /\ Len(stdin) < MaxStdin
    /\ \E l \in StdinLines :
          /\ strip(l) = <<>>
          /\ stdin' = Append(stdin, l)
    /\ words # <<>>
    /\ flushes' = Append(flushes, guess_words(words))
    /\ words' = words
    /\ UNCHANGED <<command, pc, files, fi, li, heap, lexicon, arg, target, casing,
                   nbest, empty_line, args_words, train_file>>

\* lines 159-162: a blank line with words pending: guess and reset
empty_line_flush ==
    /\ pc = "reading"
    /\ Len(stdin) < MaxStdin
    /\ \E l \in StdinLines :
          /\ strip(l) = <<>>
          /\ stdin' = Append(stdin, l)
    /\ words # <<>>
    /\ flushes' = Append(flushes, guess_words(words))
    /\ words' = <<>>
    /\ UNCHANGED <<command, pc, files, fi, li, heap, lexicon, arg, target, casing,
                   nbest, empty_line, args_words, train_file>>

\* lines 155-159: a blank line with nothing pending
empty_line_skip ==
    /\ pc = "reading"
    /\ Len(stdin) < MaxStdin
    /\ \E l \in StdinLines :
          /\ strip(l) = <<>>
          /\ stdin' = Append(stdin, l)
    /\ words = <<>>
    /\ UNCHANGED <<command, pc, files, fi, li, heap, lexicon, arg, target, casing,
                   nbest, empty_line, args_words, words, flushes, train_file>>

\* lines 164-169: end of input, the remaining words are guessed
empty_line_eof ==
    /\ pc = "reading"
    /\ flushes' = IF words # <<>> THEN Append(flushes, guess_words(words)) ELSE flushes
    /\ pc' = "done"
    /\ UNCHANGED <<command, files, fi, li, heap, lexicon, arg, target, casing, nbest,
                   empty_line, args_words, stdin, words, train_file>>

\* do_predict: lexicon = None (line 88), the lexicon files, then the words
Init ==
    /\ command = "predict"
    /\ pc = "load"
    /\ files \in PredictLexicons
    /\ fi = 0
    /\ li = 0
    /\ heap = <<>>
    /\ lexicon = None
    /\ arg = None
    /\ target = None
    /\ casing \in {"lower", "upper", "ignore"}
    /\ nbest \in 1..MaxNbest
    /\ empty_line \in BOOLEAN
    /\ args_words \in SeqsUpTo(ArgWords, MaxArgs)
    /\ stdin = <<>>
    /\ words = <<>>
    /\ flushes = <<>>
    /\ train_file = <<>>

Next ==
    \/ load_lexicon_enter
    \/ load_lexicon_entry
    \/ load_lexicon_return
    \/ predict_args
    \/ predict_readlines
    \/ empty_line_start
    \/ empty_line_word
    \/ empty_line_flush
    \/ empty_line_skip
    \/ empty_line_eof

Spec == Init /\ [][Next]_vars

-----------------------------------------------------------------------------
(* Properties of the resolution step and of the batch controller *)

\* the casing transform of the run applied to a word
Cased(w) ==
    IF casing = "lower" THEN str_lower(w)
    ELSE IF casing = "upper" THEN str_upper(w)
    ELSE w

\* a batch's normalized words: strip, then casing
NormalizedWords(batch) == [i \in 1..Len(batch) |-> Cased(strip(batch[i]))]

\* the pronunciations the loaded store holds for a word
StoreProns(w) == IF lexicon = None THEN <<>> ELSE get(heap[lexicon], w)

RECURSIVE Unresolved(_)
Unresolved(ws) ==
    IF ws = <<>> THEN <<>>
    ELSE (IF StoreProns(ws[1]) = <<>> THEN <<ws[1]>> ELSE <<>>) \o Unresolved(Tail(ws))

Range(s) == {s[i] : i \in 1..Len(s)}

\* C1: for every batch passed to guess_words, the words forwarded to the
\* external guesser are sent in a single invocation and are exactly, in input
\* order, the batch's normalized words that have no pronunciation in the store;
\* a word with a store pronunciation is never forwarded and there is no
\* invocation when no word is unresolved.
C1_ForwardedAreTheUnresolved ==
    \A n \in 1..Len(flushes) :
        LET f == flushes[n]
            u == Unresolved(NormalizedWords(f.words))
        IN  /\ Len(f.sent) <= 1
            /\ f.sent = IF u = <<>> THEN <<>> ELSE <<u>>
            /\ \A c \in 1..Len(f.sent) : \A w \in Range(f.sent[c]) : StoreProns(w) = <<>>

\* a batch with a word found in the store and a word not found was resolved
C1_Witness ==
    \E n \in 1..Len(flushes) :
        /\ Len(flushes[n].sent) = 1
        /\ Len(flushes[n].sent[1]) < Len(flushes[n].words)
        /\ Len(flushes[n].words) >= 3

\* the first min(nbest, k) pronunciations of a word's store entry, as printed
FirstProns(w) ==
    [j \in 1..(IF nbest < Len(StoreProns(w)) THEN nbest ELSE Len(StoreProns(w))) |->
        [word |-> w, pron |-> join(<<" ">>, StoreProns(w)[j])]]

\* what is emitted for one occurrence of a normalized word: from the store, or
\* what the guesser returns for that word
ResultsOfOccurrence(w) ==
    IF StoreProns(w) # <<>> THEN FirstProns(w)
    ELSE PrintedFromPredict(predict(<<w>>, nbest))

RECURSIVE ResultsInOrder(_)
ResultsInOrder(ws) ==
    IF ws = <<>> THEN <<>>
    ELSE ResultsOfOccurrence(ws[1]) \o ResultsInOrder(Tail(ws))

RECURSIVE Resolved(_)
Resolved(ws) ==
    IF ws = <<>> THEN <<>>
    ELSE (IF StoreProns(ws[1]) # <<>> THEN <<ws[1]>> ELSE <<>>) \o Resolved(Tail(ws))

\* C2 as stated: within one flushed batch the emitted results preserve the
\* order of the batch's words: whenever a precedes b in the batch, every result
\* emitted for a comes before every result emitted for b, whichever of them is
\* answered from the store or by the guesser.
C2_ResultsInBatchOrder ==
    \A n \in 1..Len(flushes) :
        flushes[n].printed = ResultsInOrder(NormalizedWords(flushes[n].words))

\* C2 amended: the results of the words answered from the store come first, in
\* the order of those words in the batch, and the results of the words answered
\* by the guesser follow, in the order of those words in the batch.
C2_StoreResultsThenGuessedInOrder ==
    \A n \in 1..Len(flushes) :
        LET ws == NormalizedWords(flushes[n].words)
        IN  flushes[n].printed =
                ResultsInOrder(Resolved(ws)) \o ResultsInOrder(Unresolved(ws))

\* a batch in which a guessed word precedes a word answered from the store
C2_Witness ==
    \E n \in 1..Len(flushes) :
        LET ws == NormalizedWords(flushes[n].words)
        IN  \E i, j \in 1..Len(ws) :
                /\ i < j
                /\ StoreProns(ws[i]) = <<>>
                /\ ws[i] # <<>>
                /\ StoreProns(ws[j]) # <<>>
                /\ flushes[n].printed # <<>>

\* the maximal runs of consecutive non-blank lines, each line stripped
RECURSIVE Runs(_, _)
Runs(lines, run) ==
    IF lines = <<>> THEN (IF run = <<>> THEN <<>> ELSE <<run>>)
    ELSE IF strip(lines[1]) = <<>>
         THEN (IF run = <<>> THEN <<>> ELSE <<run>>) \o Runs(Tail(lines), <<>>)
         ELSE Runs(Tail(lines), Append(run, strip(lines[1])))

Batches == [n \in 1..Len(flushes) |-> flushes[n].words]

Delimited == command = "predict" /\ args_words = <<>> /\ empty_line

\* C4: in delimited mode the sequence of flushes is exactly the sequence of
\* maximal runs of consecutive non-blank lines, each run one batch in input
\* order: a blank line after accumulated words flushes and resets, a blank line
\* with nothing accumulated flushes nothing, and the end of input with words
\* accumulated causes one final flush before the controller is done.
C4_FlushesAreTheRuns ==
    /\ (Delimited /\ pc = "reading") =>
           Batches \o (IF words = <<>> THEN <<>> ELSE <<words>>) = Runs(stdin, <<>>)
    /\ (Delimited /\ pc = "done") => Batches = Runs(stdin, <<>>)

\* two words, a blank line and a third word gave two batches
C4_Witness ==
    /\ Delimited
    /\ pc = "done"
    /\ Len(stdin) = 4
    /\ Len(flushes) = 2
    /\ Len(flushes[1].words) = 2
    /\ Len(flushes[2].words) = 1

RECURSIVE AllPrinted(_)
AllPrinted(fl) == IF fl = <<>> THEN <<>> ELSE fl[1].printed \o AllPrinted(Tail(fl))

RECURSIVE OfWord(_, _)
OfWord(printed, w) ==
    IF printed = <<>> THEN <<>>
    ELSE (IF printed[1].word = w THEN <<printed[1]>> ELSE <<>>) \o OfWord(Tail(printed), w)

\* the normalized words a run looked up or forwarded
Handled(fl) == UNION {Range(NormalizedWords(fl[n].words)) : n \in 1..Len(fl)}

\* C5: eager and delimited mode give identical per-word results: for every
\* sequence of stdin lines, blank lines anywhere, the set of words looked up
\* or forwarded and the results emitted for each word are those of the eager
\* run on the same lines.
C5_DelimitedSameAsEager ==
    (Delimited /\ pc = "done") =>
        LET eager == <<guess_words(stdin)>>
        IN  /\ Handled(flushes) = Handled(eager)
            /\ \A w \in Handled(flushes) \cup Handled(eager) :
                   OfWord(AllPrinted(flushes), w) = OfWord(AllPrinted(eager), w)

RECURSIVE Occurrences(_, _)
Occurrences(ws, w) ==
    IF ws = <<>> THEN 0
    ELSE (IF ws[1] = w THEN 1 ELSE 0) + Occurrences(Tail(ws), w)

RECURSIVE Repeat(_, _)
Repeat(s, n) == IF n = 0 THEN <<>> ELSE s \o Repeat(s, n - 1)

\* C6: for every query word with k >= 1 pronunciations in the store and every
\* nbest >= 1, resolution emits exactly min(nbest, k) pairs for the word, the
\* first min(nbest, k) pronunciations of the entry in store order, never
\* padded, repeated or reordered.
C6_FirstNbestOfTheEntry ==
    \A n \in 1..Len(flushes) :
        LET ws == NormalizedWords(flushes[n].words)
        IN  \A w \in Range(ws) :
                StoreProns(w) # <<>> =>
                    OfWord(flushes[n].printed, w) =
                        Repeat(FirstProns(w), Occurrences(ws, w))

\* an entry of three pronunciations queried with nbest = 2 gave two pairs
C6_Witness ==
    \E n \in 1..Len(flushes) :
        \E w \in Range(NormalizedWords(flushes[n].words)) :
            /\ Len(StoreProns(w)) = 3
            /\ nbest = 2
            /\ Len(OfWord(flushes[n].printed, w)) = 2

\* the word fields of the well-formed lines of the lexicon files
LexiconWordFields ==
    {WordField(Flatten(files)[i]) :
        i \in {j \in 1..Len(Flatten(files)) : WellFormed(Flatten(files)[j])}}

\* the key load_lexicon stores a line under, given the line's word field
LoadKey(w) == ParseLine(w \o <<" ", "x">>).word

\* the query is answered from the store: it has lines printed from its entry
\* and is not forwarded to the guesser
AnsweredFromStore(f, key) ==
    /\ \A c \in 1..Len(f.sent) : key \notin Range(f.sent[c])
    /\ OfWord(f.printed, key) # <<>>

\* C7 as stated: for every casing mode and every raw word w, the key under
\* which load stores a line whose word field is w is the key resolution looks
\* up for the query w, so a query spelled like a lexicon entry's word is
\* answered from the store.
C7_SameKeyOnLoadAndQuery ==
    (fi = Len(files)) =>
        \A n \in 1..Len(flushes) : \A i \in 1..Len(flushes[n].words) :
            LET w == strip(flushes[n].words[i])
            IN  w \in LexiconWordFields =>
                    /\ LoadKey(w) = Cased(w)
                    /\ AnsweredFromStore(flushes[n], Cased(w))

\* C7 amended: load stores a line under its word without the (n) suffix and
\* without casing, resolution looks up the cased word with its suffix; for a
\* word w that the casing mode leaves unchanged and that has no (n) suffix
\* the two keys are equal and the query w is answered from the store.
C7_SameKeyForCasedWordsWithoutNumber ==
    (fi = Len(files)) =>
        \A n \in 1..Len(flushes) : \A i \in 1..Len(flushes[n].words) :
            LET w == strip(flushes[n].words[i])
            IN  (w \in LexiconWordFields /\ Cased(w) = w /\ WithoutTrailingNumber(w) = w) =>
                    /\ LoadKey(w) = Cased(w)
                    /\ AnsweredFromStore(flushes[n], Cased(w))

\* a query spelled like a lexicon word was answered from the store under a
\* casing mode that is not "ignore"
C7_Witness ==
    /\ casing = "upper"
    /\ \E n \in 1..Len(flushes) : \E i \in 1..Len(flushes[n].words) :
          /\ strip(flushes[n].words[i]) \in LexiconWordFields
          /\ Cased(strip(flushes[n].words[i])) = strip(flushes[n].words[i])
          /\ AnsweredFromStore(flushes[n], strip(flushes[n].words[i]))

=============================================================================
